---- MODULE Spec2Model ----
(***************************************************************************)
(* VisionLQA: the bulk-analysis orchestrator of App.tsx (worker pool,      *)
(* per-item retry and timeout, cancellation, progress aggregation) and the *)
(* strict quality grading of reportGenerator that callTranslationQaLLM     *)
(* applies to every report it returns.                                     *)
(*                                                                         *)
(* One action is one JavaScript task: a handler or the continuation of an  *)
(* await runs to completion before anything else runs.  Every call of      *)
(* startBulkAnalysis is a "run" with its own closure (signal, queue,       *)
(* workers); pairs, bulkState and abortControllerRef are component state   *)
(* shared by all runs.  runs[r].sched is "done" once the call has returned.*)
(* abandoned counts the analysis calls that lost their race to the timer   *)
(* and have not settled yet.                                               *)
(*                                                                         *)
(* Spec is the application, FairSpec adds the fairness of the event loop,  *)
(* NormSpec applies the strict grading to reports drawn from ValidReports. *)
(***************************************************************************)
EXTENDS Integers, Sequences, FiniteSets, Bags, TLC

\* ---- bounds of the model ----
MaxItems == 6
MaxRuns == 2
MaxFlaky == 1
MaxIssues == 4
MaxLate == 1
MaxPermuted == 4

\* ---- program constants ----
concurrencySix == 5 + 1

concurrency == 5
DefaultRetries == 2
BatchCap == 100
TimeoutMs == 30000

Ids == 1..MaxItems
TimeoutMsg == "Request timed out (30s)"
ApiErrorMsg == "Invalid JSON response from model."
\* the TypeError of reading or setting a property of the missing `overall`
TypeErrorMsg == "Cannot read properties of undefined (reading 'qualityLevel')"
\* how the race of an attempt settles: the call resolved ("ok"), rejected on
\* an unparsable response ("error") or on a TypeError ("invalid"), or the
\* timer fired first ("timeout")
Outcomes == {"ok", "error", "invalid", "timeout"}

\* the items whose analysis the external service may fail or delay past the
\* deadline; the analysis of the others resolves with a report
Flaky == 1..MaxFlaky
PossibleOutcomes(item) == IF item \in Flaky THEN Outcomes ELSE {"ok"}

\* ---- quality normalizer (reportGenerator) ----
\* A report is the parsed JSON of a response: a record whose fields overall,
\* issues and summary may each be absent.  Scores are numbers.
ScoreKeys == {"accuracy", "terminology", "layout", "grammar", "formatting", "localizationTone"}

\* switch (issue.issueCategory): the score key of a category, "" for none
ScoreKeyStyleAsGrammar(category) ==
  CASE category = "Mistranslation" -> "accuracy"
    [] category = "Terminology" -> "terminology"
    [] category = "Layout" -> "layout"
    [] category = "Grammar" -> "grammar"
    [] category = "Formatting" -> "formatting"
    [] category = "Style" -> "grammar"
    [] OTHER -> ""

ScoreKeyOtherAsLayout(category) ==
  CASE category = "Mistranslation" -> "accuracy"
    [] category = "Terminology" -> "terminology"
    [] category = "Layout" -> "layout"
    [] category = "Grammar" -> "grammar"
    [] category = "Formatting" -> "formatting"
    [] category = "Style" -> "localizationTone"
    [] OTHER -> "layout"

ScoreKey(category) ==
  CASE category = "Mistranslation" -> "accuracy"
    [] category = "Terminology" -> "terminology"
    [] category = "Layout" -> "layout"
    [] category = "Grammar" -> "grammar"
    [] category = "Formatting" -> "formatting"
    [] category = "Style" -> "localizationTone"
    [] OTHER -> ""

\* Math.min(score, cap)
MathMinLowersByOne(a, b) == IF a <= b THEN a ELSE a - 1

MathMin(a, b) == IF a <= b THEN a ELSE b

\* the severity branches of enforceScoreConsistency: the score after one issue
CappedScoreAssign(score, severity) ==
  CASE severity = "Critical" -> 1
    [] severity = "Major" -> 2
    [] severity = "Minor" -> 4
    [] OTHER -> score

CappedScore(score, severity) ==
  CASE severity = "Critical" -> MathMin(score, 1)
    [] severity = "Major" -> MathMin(score, 2)
    [] severity = "Minor" -> MathMin(score, 4)
    [] OTHER -> score

\* report.issues || []
IssuesOf(report) == IF "issues" \in DOMAIN report THEN report.issues ELSE <<>>

\* issues.forEach(issue => ...), in the order of the list
RECURSIVE ForEachIssue(_, _, _)
ForEachIssue(scores, issues, j) ==
  IF j > Len(issues) THEN scores
  ELSE LET key == ScoreKey(issues[j].issueCategory)
       IN ForEachIssue(
            IF key = "" THEN scores
            ELSE [scores EXCEPT ![key] = CappedScore(@, issues[j].severity)],
            issues, j + 1)

\* the report after enforceScoreConsistency(report), which changes it in place
enforceScoreConsistency(report) ==
  IF IssuesOf(report) = <<>> THEN report
  ELSE [report EXCEPT !.overall.scores = ForEachIssue(@, IssuesOf(report), 1)]

\* issues.filter(i => i.severity === 'Minor').length
minorCountFromSummary(report) == report.summary.minorCount

minorCount(report) ==
  Cardinality({j \in DOMAIN IssuesOf(report) : IssuesOf(report)[j].severity = "Minor"})

\* minorCount > 3
TooManyMinorFromThree(n) == n >= 3

TooManyMinor(n) == n > 3

\* report.overall.qualityLevel === 'Critical'
UpstreamCritical(level) == level = "Critical"

determineStrictQuality(report) ==
  LET issues == IssuesOf(report)
      hasMajor == \E j \in DOMAIN issues : issues[j].severity = "Major"
  IN IF \E j \in DOMAIN issues : issues[j].severity = "Critical" THEN "Critical"
     ELSE IF UpstreamCritical(report.overall.qualityLevel) THEN "Critical"
     ELSE IF hasMajor \/ TooManyMinor(minorCount(report)) THEN "Poor"
     ELSE IF Len(issues) = 0 THEN "Excellent"
     ELSE "Good"

\* llmService: enforceScoreConsistency(parsedReport), then
\* parsedReport.overall.qualityLevel = determineStrictQuality(parsedReport)
StrictGradingWithoutScores(report) ==
  [report EXCEPT !.overall.qualityLevel = determineStrictQuality(report)]

StrictGrading(report) ==
  LET capped == enforceScoreConsistency(report)
  IN [capped EXCEPT !.overall.qualityLevel = determineStrictQuality(capped)]

\* ---- callTranslationQaLLM ----
\* A response of the model: its text parses to the record `json`, or does
\* not parse.  retryWithBackoff repeats a failed request; the response here
\* is the one that settles the call.
Parses(response) == "json" \in DOMAIN response

\* parsedReport.screenshotId = payload.screenshotId
WithScreenshotId(report, id) ==
  [f \in DOMAIN report \cup {"screenshotId"} |->
     IF f = "screenshotId" THEN id ELSE report[f]]

\* if (!parsedReport.issues) parsedReport.issues = []
WithIssues(report) ==
  [f \in DOMAIN report \cup {"issues"} |->
     IF f \in DOMAIN report THEN report[f] ELSE <<>>]

\* the settlement of callTranslationQaLLM for a payload and a response: no
\* field of the parsed report is checked; a report without `overall` makes
\* the strict grading throw a TypeError
callTranslationQaLLM(screenshotId, response) ==
  IF ~Parses(response) THEN [outcome |-> "error"]
  ELSE LET parsedReport == WithIssues(WithScreenshotId(response.json, screenshotId))
       IN IF "overall" \notin DOMAIN parsedReport THEN [outcome |-> "invalid"]
          ELSE [outcome |-> "ok", report |-> StrictGrading(parsedReport)]

\* ---- responses of the external service ----
AllScores(v) == [k \in ScoreKeys |-> v]

Overall(level, v) ==
  [qualityLevel |-> level, scores |-> AllScores(v),
   sceneDescription |-> "scene", mainProblemsSummary |-> "problems"]

Summary(severe, major, minor) ==
  [severeCount |-> severe, majorCount |-> major, minorCount |-> minor,
   optimizationAdvice |-> "advice"]

Issue(category, severity) == [issueCategory |-> category, severity |-> severity]

FullResponse ==
  [json |-> [overall |-> Overall("Perfect", 5),
             issues |-> <<Issue("Layout", "Major")>>,
             summary |-> Summary(0, 1, 0)]]

GarbageResponse == [text |-> "not json"]

NoOverallResponse == [json |-> [issues |-> <<>>, summary |-> Summary(0, 0, 0)]]

NoIssuesResponse == [json |-> [overall |-> Overall("Good", 5), summary |-> Summary(0, 0, 0)]]

NoSummaryResponse ==
  [json |-> [overall |-> Overall("Average", 3), issues |-> <<Issue("Style", "Minor")>>]]

\* the responses the service may give for an item
Responses(item) ==
  IF item \in Flaky
  THEN {FullResponse, GarbageResponse, NoOverallResponse, NoIssuesResponse, NoSummaryResponse}
  ELSE {FullResponse}

\* callTranslationQaLLM tabulated over the payloads and responses of the model
callResults ==
  [screenshotId \in Ids, response \in UNION {Responses(i) : i \in Ids} |->
     callTranslationQaLLM(screenshotId, response)]

VARIABLES pairs, bulkState, isBulkModalOpen, abortControllerRef,
          runs, dequeued, counted, abandoned, norm

vars == <<pairs, bulkState, isBulkModalOpen, abortControllerRef,
          runs, dequeued, counted, abandoned, norm>>

\* ---- data ----
NoReport == [screenshotId |-> 0]

NewPair == [status |-> "pending", report |-> NoReport, errorMessage |-> ""]

EmptyBulkState ==
  [isProcessing |-> FALSE, total |-> 0, completed |-> 0, success |-> 0,
   failed |-> 0, errors |-> <<>>, isComplete |-> FALSE]

ExitedWorker ==
  [pc |-> "exited", item |-> 0, retries |-> 0, calls |-> 0, ok |-> FALSE, msg |-> "",
   timer |-> 0]

RECURSIVE SortedSeq(_)
SortedSeq(S) ==
  IF S = {} THEN <<>>
  ELSE LET m == CHOOSE x \in S : \A y \in S : x <= y
       IN <<m>> \o SortedSeq(S \ {m})

\* setPairs(prev => prev.map(p => p.id === id ? {...p, ...updates} : p))
updatePairStatusAll(prs, id, updates) ==
  [p \in DOMAIN prs |->
     [f \in DOMAIN prs[p] |-> IF f \in DOMAIN updates THEN updates[f] ELSE prs[p][f]]]

updatePairStatus(prs, id, updates) ==
  [p \in DOMAIN prs |->
     IF p = id
     THEN [f \in DOMAIN prs[p] |-> IF f \in DOMAIN updates THEN updates[f] ELSE prs[p][f]]
     ELSE prs[p]]

\* error instanceof Error ? error.message : "Unknown error"
ErrorMessageUnknown(outcome) == "Unknown error"

ErrorMessage(outcome) ==
  CASE outcome = "timeout" -> TimeoutMsg
    [] outcome = "invalid" -> TypeErrorMsg
    [] OTHER -> ApiErrorMsg

\* pairs.filter(p => p.status === 'pending' || p.status === 'failed')
pendingItems ==
  SortedSeq({p \in DOMAIN pairs : pairs[p].status \in {"pending", "failed"}})

pendingCount == Len(pendingItems)

\* ---- processItem ----
\* entry of processItem(pair, retries): the abort check, the status update
\* and the start of the race between the analysis call and the timer
\* setTimeout(() => reject(new Error("Request timed out (30s)")), 30000):
\* the delay of the timer armed by the invocation that makes call number
\* calls + 1 for the item; no timer is ever cleared
timeoutPromisePerItem(calls) == IF calls = 0 THEN TimeoutMs ELSE 0

timeoutPromise(calls) == TimeoutMs

processItemEntry(aborted, prs, item, retries, calls) ==
  IF aborted
  THEN [worker |-> [pc |-> "resume", item |-> item, retries |-> retries,
                    calls |-> calls, ok |-> FALSE, msg |-> "", timer |-> 0],
        pairs |-> prs]
  ELSE [worker |-> [pc |-> "await", item |-> item, retries |-> retries,
                    calls |-> calls + 1, ok |-> FALSE, msg |-> "",
                    timer |-> timeoutPromise(calls)],
        pairs |-> updatePairStatus(prs, item,
                    [status |-> "analyzing", errorMessage |-> ""])]

\* catch (error): retries > 0 && !signal.aborted
ShouldRetryIgnoresAbort(retries, aborted) == retries > 0

ShouldRetryOnceMore(retries, aborted) == retries >= 0 /\ ~aborted

ShouldRetry(retries, aborted) == retries > 0 /\ ~aborted

\* retries - 1
NextRetries(retries) == retries - 1

\* ---- worker loop ----
\* while (queue.length > 0 && !signal.aborted)
LoopConditionIgnoresAbort(q, aborted) == Len(q) > 0

LoopCondition(q, aborted) == Len(q) > 0 /\ ~aborted

\* queue after queue.shift()
ShiftKeepsHead(q) == q

Shift(q) == Tail(q)

\* one pass through the head of the worker loop, up to its await or its exit
WorkerLoopPop(q, aborted, prs, deq) ==
  IF LoopCondition(q, aborted)
  THEN LET item == q[Len(q)]
           e == processItemEntry(aborted, prs, item, DefaultRetries, 0)
       IN [queue |-> SubSeq(q, 1, Len(q) - 1), worker |-> e.worker, pairs |-> e.pairs,
           dequeued |-> [deq EXCEPT ![item] = @ + 1]]
  ELSE [queue |-> q, worker |-> ExitedWorker, pairs |-> prs, dequeued |-> deq]

WorkerLoop(q, aborted, prs, deq) ==
  IF LoopCondition(q, aborted)
  THEN LET item == Head(q)
           e == processItemEntry(aborted, prs, item, DefaultRetries, 0)
       IN [queue |-> Shift(q), worker |-> e.worker, pairs |-> e.pairs,
           dequeued |-> [deq EXCEPT ![item] = @ + 1]]
  ELSE [queue |-> q, worker |-> ExitedWorker, pairs |-> prs, dequeued |-> deq]

\* Array(concurrency).fill(null).map(async () => {...}): the workers start
\* one after the other, each running up to its first await
RECURSIVE StartWorkers(_, _)
StartWorkers(w, acc) ==
  IF w > concurrency THEN acc
  ELSE LET s == WorkerLoop(acc.queue, FALSE, acc.pairs, acc.dequeued)
       IN StartWorkers(w + 1,
            [queue |-> s.queue, pairs |-> s.pairs, dequeued |-> s.dequeued,
             workers |-> acc.workers (+) SetToBag({s.worker})])

\* the runs whose startBulkAnalysis call has not returned
LiveRuns == {r \in DOMAIN runs : runs[r].sched = "joining"}

RunItems(r) == {runs[r].items[j] : j \in DOMAIN runs[r].items}

\* ---- the event loop ----
\* A promise continuation (microtask) is queued: a worker's continuation
\* after `await processItem(item)`, or the scheduler's after Promise.all.
\* Microtasks run before the next task (user event, network reply, timer).
\* the workers of a run are anonymous closures: the pool is the multiset of
\* their positions
Workers(r) == BagToSet(runs[r].workers)

Replace(pool, old, new) == (pool (-) SetToBag({old})) (+) SetToBag({new})

JoinWaitsForEmptyQueue(r) ==
  /\ runs[r].sched = "joining"
  /\ runs[r].queue = <<>>
  /\ \A wk \in Workers(r) : wk.pc = "exited"

JoinPending(r) ==
  /\ runs[r].sched = "joining"
  /\ \A wk \in Workers(r) : wk.pc = "exited"

MicrotaskPending ==
  \E r \in LiveRuns :
     \/ \E wk \in Workers(r) : wk.pc = "resume"
     \/ JoinPending(r)

\* Math.random().toString(36).substr(2, 9): an id that no pair of the list
\* and no item ever taken by a run carries
SetMax(S) == IF S = {} THEN 0 ELSE CHOOSE x \in S : \A y \in S : y <= x

nextId == 1 + SetMax(DOMAIN pairs \cup UNION {RunItems(r) : r \in DOMAIN runs})

\* ---- the normalizer applied to a report on its own ----
\* norm.report is the report at hand and norm.passes the number of strict
\* gradings applied to it; norm.input is the report as it was received
NormIdle == [passes |-> 0]

\* ---- initial state ----
Init ==
  /\ pairs = [p \in {} |-> NewPair]
  /\ bulkState = EmptyBulkState
  /\ isBulkModalOpen = FALSE
  /\ abortControllerRef = 0
  /\ runs = <<>>
  /\ dequeued = [i \in Ids |-> 0]
  /\ counted = [i \in Ids |-> 0]
  /\ abandoned = 0
  /\ norm = NormIdle

\* ---- handlers ----
\* UploadArea creates k pairs with fresh ids, status 'pending'
handlePairsCreated(k) ==
  /\ ~MicrotaskPending
  /\ ~isBulkModalOpen
  /\ nextId + k - 1 <= MaxItems
  /\ pairs' = [p \in DOMAIN pairs \cup (nextId..(nextId + k - 1)) |->
                 IF p \in DOMAIN pairs THEN pairs[p] ELSE NewPair]
  /\ UNCHANGED <<bulkState, isBulkModalOpen, abortControllerRef, runs, dequeued, counted, abandoned, norm>>

handleStartOver ==
  /\ ~MicrotaskPending
  /\ ~isBulkModalOpen
  /\ pairs' = [p \in {} |-> NewPair]
  /\ bulkState' = EmptyBulkState
  /\ UNCHANGED <<isBulkModalOpen, abortControllerRef, runs, dequeued, counted, abandoned, norm>>

handleOpenBulkModal ==
  /\ ~MicrotaskPending
  /\ ~isBulkModalOpen
  /\ isBulkModalOpen' = TRUE
  /\ bulkState' = IF ~bulkState.isProcessing /\ ~bulkState.isComplete
                  THEN EmptyBulkState ELSE bulkState
  /\ UNCHANGED <<pairs, abortControllerRef, runs, dequeued, counted, abandoned, norm>>

\* onClose of BulkRunModal: the close buttons are rendered while !isProcessing
CloseBulkModal ==
  /\ ~MicrotaskPending
  /\ isBulkModalOpen
  /\ ~bulkState.isProcessing
  /\ isBulkModalOpen' = FALSE
  /\ UNCHANGED <<pairs, bulkState, abortControllerRef, runs, dequeued, counted, abandoned, norm>>

handleCancelBulk ==
  /\ ~MicrotaskPending
  /\ isBulkModalOpen
  /\ bulkState.isProcessing
  /\ runs' = IF abortControllerRef # 0
             THEN [runs EXCEPT ![abortControllerRef].aborted = TRUE]
             ELSE runs
  /\ bulkState' = [bulkState EXCEPT !.isProcessing = FALSE, !.isComplete = TRUE]
  /\ UNCHANGED <<pairs, isBulkModalOpen, abortControllerRef, dequeued, counted, abandoned, norm>>

startBulkAnalysis ==
  /\ ~MicrotaskPending
  /\ isBulkModalOpen
  /\ ~bulkState.isProcessing /\ ~bulkState.isComplete
  /\ Len(runs) < MaxRuns
  /\ pendingCount # 0
  /\ pendingCount <= BatchCap
  /\ LET items == pendingItems
         s == StartWorkers(1, [queue |-> items, pairs |-> pairs, dequeued |-> dequeued,
                               workers |-> EmptyBag])
         r == Len(runs) + 1
     IN /\ bulkState' = [isProcessing |-> TRUE, total |-> Len(items), completed |-> 0,
                         success |-> 0, failed |-> 0, errors |-> <<>>, isComplete |-> FALSE]
        /\ abortControllerRef' = r
        /\ runs' = Append(runs, [aborted |-> FALSE, items |-> items, queue |-> s.queue,
                                 workers |-> s.workers, sched |-> "joining"])
        /\ pairs' = s.pairs
        /\ dequeued' = s.dequeued
  /\ UNCHANGED <<isBulkModalOpen, counted, abandoned, norm>>

\* latency of the external service: the calls for the items outside Flaky
\* settle in the order in which they were started; a call for an item of
\* Flaky settles at any time
SettlesInTurn(r, wk) ==
  \/ wk.item \in Flaky
  \/ \A w2 \in Workers(r) :
        (w2.pc = "await" /\ w2.item \notin Flaky) => wk.item <= w2.item

\* the race of one attempt settles: the analysis call settled first with
\* what callTranslationQaLLM makes of the response, or the timer fired
\* first; the call that lost to the timer is not stopped
AttemptSettles(r, wk, outcome) ==
  /\ ~MicrotaskPending
  /\ wk.pc = "await"
  /\ outcome \in PossibleOutcomes(wk.item)
  /\ SettlesInTurn(r, wk)
  /\ outcome = "timeout" => abandoned < MaxLate
  /\ \E response \in Responses(wk.item) :
       LET run == runs[r]
           result == callResults[wk.item, response]
       IN /\ outcome # "timeout" => result.outcome = outcome
          /\ IF outcome = "ok"
             THEN /\ pairs' = updatePairStatus(pairs, wk.item,
                                [status |-> "completed", report |-> result.report])
                  /\ runs' = [runs EXCEPT ![r].workers =
                                Replace(@, wk, [wk EXCEPT !.pc = "resume", !.ok = TRUE])]
                  /\ UNCHANGED bulkState
             ELSE IF ShouldRetry(wk.retries, run.aborted)
             THEN LET e == processItemEntry(run.aborted, pairs, wk.item,
                                            NextRetries(wk.retries), wk.calls)
                  IN /\ pairs' = e.pairs
                     /\ runs' = [runs EXCEPT ![r].workers = Replace(@, wk, e.worker)]
                     /\ UNCHANGED bulkState
             ELSE LET m == ErrorMessage(outcome)
                  IN /\ pairs' = updatePairStatus(pairs, wk.item,
                                   [status |-> "failed", errorMessage |-> m])
                     /\ bulkState' = [bulkState EXCEPT
                                        !.errors = Append(@, [id |-> wk.item, error |-> m])]
                     /\ runs' = [runs EXCEPT ![r].workers =
                                   Replace(@, wk, [wk EXCEPT !.pc = "resume", !.ok = FALSE, !.msg = m])]
  /\ abandoned' = IF outcome = "timeout" THEN abandoned + 1 ELSE abandoned
  /\ UNCHANGED <<isBulkModalOpen, abortControllerRef, dequeued, counted, norm>>

\* an analysis call whose attempt lost the race to the timer settles: the
\* race promise is settled already and nothing reads the result
AbandonedCallSettlesApplies ==
  /\ ~MicrotaskPending
  /\ abandoned > 0
  /\ abandoned' = abandoned - 1
  /\ bulkState' = [bulkState EXCEPT !.completed = @ + 1, !.success = @ + 1]
  /\ UNCHANGED <<pairs, isBulkModalOpen, abortControllerRef, runs,
                 dequeued, counted, norm>>

AbandonedCallSettles ==
  /\ ~MicrotaskPending
  /\ abandoned > 0
  /\ abandoned' = abandoned - 1
  /\ UNCHANGED <<pairs, bulkState, isBulkModalOpen, abortControllerRef, runs,
                 dequeued, counted, norm>>

\* setBulkState(prev => ({...prev, completed: prev.completed + 1,
\*   success: prev.success + (success ? 1 : 0), failed: prev.failed + (success ? 0 : 1)}))
CountOutcomeStale(prev, ok) ==
  [prev EXCEPT !.completed = 1,
               !.success = IF ok THEN 1 ELSE 0,
               !.failed = IF ok THEN 0 ELSE 1]

CountOutcome(prev, ok) ==
  [prev EXCEPT !.completed = @ + 1,
               !.success = IF ok THEN @ + 1 ELSE @,
               !.failed = IF ok THEN @ ELSE @ + 1]

\* the worker continues after `await processItem(item)`: the counter update,
\* then the next pass of its loop
WorkerResumes(r, wk) ==
  /\ wk.pc = "resume"
  /\ LET run == runs[r]
         s == WorkerLoop(run.queue, run.aborted, pairs, dequeued)
     IN /\ bulkState' = CountOutcome(bulkState, wk.ok)
        /\ counted' = [counted EXCEPT ![wk.item] = @ + 1]
        /\ runs' = [runs EXCEPT ![r].queue = s.queue,
                                ![r].workers = Replace(@, wk, s.worker)]
        /\ pairs' = s.pairs
        /\ dequeued' = s.dequeued
  /\ UNCHANGED <<isBulkModalOpen, abortControllerRef, abandoned, norm>>

\* await Promise.all(workers) returns
SchedulerJoins(r) ==
  /\ JoinPending(r)
  /\ bulkState' = [bulkState EXCEPT !.isProcessing = FALSE, !.isComplete = TRUE]
  /\ abortControllerRef' = 0
  /\ runs' = [runs EXCEPT ![r].sched = "done"]
  /\ UNCHANGED <<pairs, isBulkModalOpen, dequeued, counted, abandoned, norm>>

Next ==
  \/ \E k \in 1..MaxItems : handlePairsCreated(k)
  \/ handleStartOver
  \/ handleOpenBulkModal
  \/ CloseBulkModal
  \/ handleCancelBulk
  \/ startBulkAnalysis
  \/ \E r \in LiveRuns : \E wk \in Workers(r), o \in Outcomes : AttemptSettles(r, wk, o)
  \/ \E r \in LiveRuns : \E wk \in Workers(r) : WorkerResumes(r, wk)
  \/ \E r \in LiveRuns : SchedulerJoins(r)
  \/ AbandonedCallSettles

Spec == Init /\ [][Next]_vars

TypeOK ==
  /\ DOMAIN pairs \subseteq Ids
  /\ isBulkModalOpen \in BOOLEAN
  /\ abortControllerRef \in 0..MaxRuns
  /\ Len(runs) <= MaxRuns
  /\ abandoned \in 0..MaxLate
  /\ norm.passes \in 0..2

\* ---- vocabulary of the properties ----
QueueItems(r) == {runs[r].queue[j] : j \in DOMAIN runs[r].queue}

AnalyzingItems(r) ==
  {i \in RunItems(r) : i \in DOMAIN pairs /\ pairs[i].status = "analyzing"}

\* workers of run r that hold an item (in an attempt, or about to count it)
Processing(r) == {wk \in Workers(r) : wk.pc \in {"await", "resume"}}

\* number of workers of run r holding item i
Holders(r, i) ==
  BagCardinality([wk \in {x \in Workers(r) : x.item = i} |-> CopiesIn(wk, runs[r].workers)])

\* ---- C1 ----
\* C1: in every reachable state, at most 5 items of a run are in status
\* 'analyzing', also during retries and after cancellation was requested.
C1_AtMostFiveAnalyzing ==
  \A r \in LiveRuns : Cardinality(AnalyzingItems(r)) <= 5

\* five items are analyzing, one of them on a retry, after the sixth item of
\* the run was dequeued by a worker that had finished another item
C1_Witness ==
  \E r \in LiveRuns :
     /\ Cardinality(AnalyzingItems(r)) = 5
     /\ Len(runs[r].items) > 5
     /\ runs[r].queue = <<>>
     /\ \E wk \in Workers(r) : wk.pc = "await" /\ wk.calls > 1

\* ---- C2 ----
\* C2: in every reachable state completed = success + failed and
\* completed <= total.
C2_CountersWithinTotal ==
  /\ bulkState.completed = bulkState.success + bulkState.failed
  /\ bulkState.completed <= bulkState.total

\* ---- C3 ----
\* C3: when the scheduler of a run whose token was never set passes its
\* join, completed = total and every submitted item was dequeued once and
\* counted once as a success or a failure.
C3_UncancelledRunCompletesAll ==
  [][\A r \in LiveRuns :
       (SchedulerJoins(r) /\ ~runs[r].aborted)
         => /\ bulkState'.completed = bulkState'.total
            /\ \A i \in RunItems(r) : dequeued[i] = 1 /\ counted[i] = 1]_vars

\* ---- C4 ----
\* C4: no item is claimed twice: every item is shifted from the queue and
\* passed to processItem at most once, is held by at most one worker, and
\* adds at most one to completed.
C4_ClaimedAtMostOnce ==
  /\ \A i \in Ids : dequeued[i] <= 1 /\ counted[i] <= 1 /\ counted[i] <= dequeued[i]
  /\ \A r \in LiveRuns : \A i \in RunItems(r) : Holders(r, i) <= 1

\* a run of more items than workers has finished: every item was claimed
\* and counted once
C4_Witness ==
  \E r \in LiveRuns :
     /\ Len(runs[r].items) > concurrency
     /\ JoinPending(r)
     /\ \A i \in RunItems(r) : dequeued[i] = 1 /\ counted[i] = 1

\* ---- C5 ----
\* C5: once the token of a run is set it stays set, the queue of the run is
\* never shifted again, no worker of the run starts another analysis call,
\* and the items left in the queue are never 'analyzing' and never counted.
StartsNoCall(r) ==
  \A wk \in BagToSet(runs'[r].workers) :
     wk.pc = "await" => CopiesIn(wk, runs'[r].workers) <= CopiesIn(wk, runs[r].workers)

C5_NoDequeueAfterCancel ==
  [][\A r \in LiveRuns :
       runs[r].aborted
         => /\ runs'[r].aborted
            /\ runs'[r].queue = runs[r].queue
            /\ StartsNoCall(r)
            /\ \A i \in RunItems(r) : dequeued'[i] = dequeued[i]
            /\ \A i \in QueueItems(r) :
                  /\ counted'[i] = 0
                  /\ i \in DOMAIN pairs' => pairs'[i].status = "pending"]_vars

\* a cancelled run has ended with items still in its queue, one item of it
\* having been attempted and counted after the cancellation
C5_Witness ==
  \E r \in LiveRuns :
     /\ runs[r].aborted
     /\ JoinPending(r)
     /\ runs[r].queue # <<>>
     /\ \E i \in RunItems(r) : counted[i] = 1

\* ---- C6 ----
\* C6: whenever runs are under way, eventually every one of them has passed
\* its join, and at that moment isProcessing is false and isComplete is
\* true, whatever the outcomes of the items and whether or not a run was
\* cancelled.
C6_RunEventuallyComplete ==
  (LiveRuns # {}) ~> (LiveRuns = {} /\ ~bulkState.isProcessing /\ bulkState.isComplete)

\* a cancelled run is complete with fewer items counted than submitted
C6_Witness ==
  /\ LiveRuns = {}
  /\ ~bulkState.isProcessing /\ bulkState.isComplete
  /\ 0 < bulkState.completed /\ bulkState.completed < bulkState.total

\* ---- C7 ----
\* C7: isComplete becomes true only in the step in which the scheduler of a
\* run passes its join, and is never true while a worker still holds an item.
C7_CompleteOnlyAfterWorkersExit ==
  [][/\ (~bulkState.isComplete /\ bulkState'.isComplete)
          => \E r \in LiveRuns : SchedulerJoins(r)
     /\ bulkState'.isComplete
          => \A r \in DOMAIN runs' : \A wk \in BagToSet(runs'[r].workers) : wk.pc = "exited"]_vars

\* ---- C8 ----
\* C8: once isComplete is true, no step of a worker or of the scheduler
\* changes the run state.
WorkerStep ==
  \/ \E r \in LiveRuns : \E wk \in Workers(r), o \in Outcomes : AttemptSettles(r, wk, o)
  \/ \E r \in LiveRuns : \E wk \in Workers(r) : WorkerResumes(r, wk)
  \/ \E r \in LiveRuns : SchedulerJoins(r)

C8_FrozenOnceComplete ==
  [][(bulkState.isComplete /\ WorkerStep) => bulkState' = bulkState]_vars

\* ---- C9 ----
\* C9: an attempt in flight when the token is set runs to its outcome, and
\* the outcome is recorded: a success makes the item 'completed' with its
\* report and adds one to success; a failure or a timeout makes it 'failed'
\* with that error's message, appends the message to errors and adds one to
\* failed.  (An item removed from the list by Start Over has no status.)
C9_InFlightOutcomeRecorded ==
  [][\A r \in LiveRuns : \A wk \in Workers(r) :
       runs[r].aborted =>
         /\ \A o \in Outcomes : AttemptSettles(r, wk, o) =>
               LET done == [wk EXCEPT !.pc = "resume", !.ok = (o = "ok"),
                                      !.msg = IF o = "ok" THEN "" ELSE ErrorMessage(o)]
               IN /\ done \in BagToSet(runs'[r].workers)
                  /\ wk.item \in DOMAIN pairs =>
                        IF o = "ok"
                        THEN /\ pairs'[wk.item].status = "completed"
                             /\ pairs'[wk.item].report.screenshotId = wk.item
                        ELSE /\ pairs'[wk.item].status = "failed"
                             /\ pairs'[wk.item].errorMessage = ErrorMessage(o)
                  /\ o # "ok" => bulkState'.errors =
                        Append(bulkState.errors, [id |-> wk.item, error |-> ErrorMessage(o)])
         /\ WorkerResumes(r, wk) =>
               /\ bulkState'.completed = bulkState.completed + 1
               /\ bulkState'.success = bulkState.success + (IF wk.ok THEN 1 ELSE 0)
               /\ bulkState'.failed = bulkState.failed + (IF wk.ok THEN 0 ELSE 1)]_vars

\* after a cancellation, one in-flight attempt has succeeded and another
\* has failed on its first attempt, and both were counted
C9_Witness ==
  \E r \in LiveRuns :
     /\ runs[r].aborted
     /\ bulkState.success >= 1 /\ bulkState.failed >= 1
     /\ bulkState.isComplete
     /\ \E i, j \in RunItems(r) \cap DOMAIN pairs :
           /\ pairs[i].status = "completed" /\ counted[i] = 1
           /\ pairs[j].status = "failed" /\ counted[j] = 1
     /\ JoinPending(r)
     /\ runs[r].queue # <<>>

\* ---- C10 ----
\* C10: processItem starts the analysis at most 3 times for an item; no
\* attempt follows a success; an item that fails in a run whose token is not
\* set has been attempted exactly 3 times.
C10_AtMostThreeAttempts ==
  /\ [](\A r \in LiveRuns : \A wk \in Workers(r) :
          /\ wk.calls <= 3
          /\ (wk.pc = "resume" /\ ~wk.ok /\ ~runs[r].aborted) => wk.calls = 3)
  /\ [][\A r \in LiveRuns : \A wk \in Workers(r) :
          AttemptSettles(r, wk, "ok") =>
             \A wk2 \in BagToSet(runs'[r].workers) :
                wk2.item = wk.item => (wk2.pc = "resume" /\ wk2.ok /\ wk2.calls = wk.calls)]_vars

\* an item has failed its third attempt in a run that was not cancelled
C10_Witness ==
  \E r \in LiveRuns : \E wk \in Workers(r) :
     wk.pc = "resume" /\ ~wk.ok /\ ~runs[r].aborted /\ wk.calls = 3

\* ---- the normalizer on its own ----
\* the reports the strict grading is applied to: every list of at most
\* MaxIssues issues, every upstream level and score of the sets below
IssueKinds ==
  {Issue("Layout", "Critical"), Issue("Layout", "Minor"),
   Issue("Mistranslation", "Major"), Issue("Terminology", "Minor"),
   Issue("Grammar", "Major"), Issue("Formatting", "Minor"),
   Issue("Style", "Minor"), Issue("Other", "Critical")}

UpstreamLevels == {"Critical", "Good", "Perfect"}

ScoreValues == {0, 3, 5}

IssueLists == UNION {[1..n -> IssueKinds] : n \in 0..MaxIssues}

ValidReports ==
  {[screenshotId |-> 1, overall |-> Overall(level, v), issues |-> issues,
    summary |-> Summary(0, 0, 0)] :
     level \in UpstreamLevels, v \in ScoreValues, issues \in IssueLists}

NormInit ==
  /\ pairs = [p \in {} |-> NewPair]
  /\ bulkState = EmptyBulkState
  /\ isBulkModalOpen = FALSE
  /\ abortControllerRef = 0
  /\ runs = <<>>
  /\ dequeued = [i \in Ids |-> 0]
  /\ counted = [i \in Ids |-> 0]
  /\ abandoned = 0
  /\ \E r \in ValidReports : norm = [passes |-> 0, input |-> r, previous |-> r, report |-> r]

\* one more strict grading of the report at hand (llmService, lines 251-258)
Normalize ==
  /\ norm.passes < 2
  /\ norm' = [norm EXCEPT !.passes = @ + 1, !.previous = norm.report,
                          !.report = StrictGrading(norm.report)]
  /\ UNCHANGED <<pairs, bulkState, isBulkModalOpen, abortControllerRef, runs,
                 dequeued, counted, abandoned>>

NormNext == Normalize

NormSpec == NormInit /\ [][NormNext]_vars

\* ---- C11 ----
\* C11: when the scheduler of a run whose token was never set passes its
\* join, failed is the number of the run's items that ended 'failed',
\* success the number of the others, and errors holds exactly one entry for
\* each failed item and no other entry.
C11_FinalCountsMatchOutcomes ==
  [][\A r \in LiveRuns :
       (SchedulerJoins(r) /\ ~runs[r].aborted)
         => LET failedItems == {i \in RunItems(r) :
                                   i \in DOMAIN pairs /\ pairs[i].status = "failed"}
                errs == bulkState'.errors
            IN /\ bulkState'.failed = Cardinality(failedItems)
               /\ bulkState'.success = Len(runs[r].items) - Cardinality(failedItems)
               /\ Len(errs) = Cardinality(failedItems)
               /\ \A i \in failedItems :
                     Cardinality({j \in DOMAIN errs : errs[j].id = i}) = 1]_vars

\* ---- C12 ----
\* C12: when a failed attempt is retried, nothing of its error is recorded
\* (errors is unchanged and the item's errorMessage is empty); when an item
\* ends as failed, the item's errorMessage and the one entry appended to
\* errors carry the message of the attempt that just failed.
C12_OnlyLastErrorSurfaced ==
  [][\A r \in LiveRuns : \A wk \in Workers(r) : \A o \in Outcomes \ {"ok"} :
       AttemptSettles(r, wk, o) =>
         LET m == CASE o = "timeout" -> "Request timed out (30s)"
                    [] o = "error" -> "Invalid JSON response from model."
                    [] o = "invalid" -> TypeErrorMsg
         IN IF wk.retries > 0 /\ ~runs[r].aborted
            THEN /\ bulkState' = bulkState
                 /\ wk.item \in DOMAIN pairs =>
                       /\ pairs'[wk.item].status = "analyzing"
                       /\ pairs'[wk.item].errorMessage = ""
                 /\ \A w2 \in BagToSet(runs'[r].workers) : w2.item = wk.item => w2.msg = ""
            ELSE /\ bulkState'.errors = Append(bulkState.errors, [id |-> wk.item, error |-> m])
                 /\ wk.item \in DOMAIN pairs =>
                       /\ pairs'[wk.item].status = "failed"
                       /\ pairs'[wk.item].errorMessage = m]_vars

\* an item has failed on its third attempt with a parse error after an
\* earlier attempt timed out (its call is still outstanding); the timeout
\* message is neither on the item nor in errors
C12_Witness ==
  /\ Len(runs) = 1
  /\ abandoned = 1
  /\ \E wk \in Workers(1) :
        /\ wk.pc = "resume" /\ ~wk.ok /\ wk.calls = 3
        /\ wk.item \in DOMAIN pairs
        /\ pairs[wk.item].errorMessage = ApiErrorMsg
        /\ bulkState.errors = <<[id |-> wk.item, error |-> ApiErrorMsg]>>

\* ---- C13 ----
\* C13: every attempt in flight, first or retry, has its own timer of
\* 30000 ms; when the timer fires first the analysis call stays outstanding,
\* and the attempt is a failure like any other: retried with a new timer
\* while budget remains and the token is not set, else the item fails with
\* the timeout message.
C13_TimeoutPerAttempt ==
  /\ [](\A r \in LiveRuns : \A wk \in Workers(r) : wk.pc = "await" => wk.timer = 30000)
  /\ [][\A r \in LiveRuns : \A wk \in Workers(r) :
          AttemptSettles(r, wk, "timeout") =>
             /\ abandoned' = abandoned + 1
             /\ IF wk.retries > 0 /\ ~runs[r].aborted
                THEN [wk EXCEPT !.retries = @ - 1, !.calls = @ + 1, !.timer = 30000]
                        \in BagToSet(runs'[r].workers)
                ELSE /\ [wk EXCEPT !.pc = "resume", !.msg = "Request timed out (30s)"]
                           \in BagToSet(runs'[r].workers)
                     /\ wk.item \in DOMAIN pairs =>
                           /\ pairs'[wk.item].status = "failed"
                           /\ pairs'[wk.item].errorMessage = "Request timed out (30s)"]_vars

\* the retry of an attempt that timed out is in flight with its own timer
\* while the call of the timed-out attempt is still outstanding
C13_Witness ==
  /\ Len(runs) = 1
  /\ abandoned = 1
  /\ \E wk \in Workers(1) : wk.pc = "await" /\ wk.calls = 2 /\ wk.timer = 30000

\* ---- C14 ----
\* C14: for every report, determineStrictQuality (and the qualityLevel the
\* strict grading writes) is Critical if an issue is Critical or the
\* upstream level is Critical; otherwise Poor if an issue is Major or more
\* than 3 issues are Minor; otherwise Excellent if there is no issue;
\* otherwise Good.
C14_StrictQualityTiers ==
  LET r == norm.input
      n(sev) == Cardinality({j \in DOMAIN r.issues : r.issues[j].severity = sev})
      tier == IF n("Critical") > 0 \/ r.overall.qualityLevel = "Critical" THEN "Critical"
              ELSE IF n("Major") > 0 \/ n("Minor") > 3 THEN "Poor"
              ELSE IF Len(r.issues) = 0 THEN "Excellent"
              ELSE "Good"
  IN /\ determineStrictQuality(r) = tier
     /\ norm.passes >= 1 => norm.report.overall.qualityLevel = tier

\* a report of exactly 4 Minor issues and an upstream level that is not
\* Critical was graded Poor
C14_Witness ==
  /\ norm.passes = 1
  /\ Len(norm.input.issues) = 4
  /\ \A j \in DOMAIN norm.input.issues : norm.input.issues[j].severity = "Minor"
  /\ norm.input.overall.qualityLevel = "Perfect"
  /\ norm.report.overall.qualityLevel = "Poor"

\* ---- C15 ----
\* C15: after enforceScoreConsistency each of the six scores is the minimum
\* of its original value and of the caps (1 Critical, 2 Major, 4 Minor) of
\* the issues whose category maps to that score; no score is raised.
C15_ScoresCappedByIssues ==
  LET r == norm.input
      dim(c) == CASE c = "Mistranslation" -> "accuracy"
                  [] c = "Terminology" -> "terminology"
                  [] c = "Layout" -> "layout"
                  [] c = "Grammar" -> "grammar"
                  [] c = "Formatting" -> "formatting"
                  [] c = "Style" -> "localizationTone"
                  [] OTHER -> "none"
      cap(sev) == CASE sev = "Critical" -> 1 [] sev = "Major" -> 2 [] sev = "Minor" -> 4
      bounds(k) == {r.overall.scores[k]} \cup
                   {cap(r.issues[j].severity) : j \in {x \in DOMAIN r.issues :
                                                          dim(r.issues[x].issueCategory) = k}}
      least(S) == CHOOSE x \in S : \A y \in S : x <= y
      capped == enforceScoreConsistency(r).overall.scores
  IN /\ DOMAIN capped = ScoreKeys
     /\ \A k \in ScoreKeys : capped[k] = least(bounds(k)) /\ capped[k] <= r.overall.scores[k]
     /\ norm.passes >= 1 => norm.report.overall.scores = capped

\* a report with a Critical and a Minor Layout issue and a Minor Style issue,
\* all scores 5: layout is 1, localizationTone 4, the scores without an
\* issue are still 5
C15_Witness ==
  /\ norm.passes = 1
  /\ norm.input.overall.scores = AllScores(5)
  /\ norm.input.issues = <<Issue("Layout", "Minor"), Issue("Layout", "Critical"),
                           Issue("Style", "Minor")>>
  /\ norm.report.overall.scores =
        [AllScores(5) EXCEPT !["layout"] = 1, !["localizationTone"] = 4]

\* ---- C16 ----
\* C16: the strict grading is idempotent: a second application to a report
\* leaves it exactly as the first one made it.
C16_NormalizeIdempotent ==
  norm.passes = 2 => norm.report = norm.previous

\* a report the first grading changed in level and scores was graded twice
C16_Witness ==
  /\ norm.passes = 2
  /\ norm.previous.overall.qualityLevel # norm.input.overall.qualityLevel
  /\ norm.previous.overall.scores # norm.input.overall.scores
  /\ norm.report = norm.previous

\* ---- C17 ----
\* the reports that agree with r on issues and overall.qualityLevel
SameIssuesAndLevel(r) ==
  {[r EXCEPT !.overall.scores = AllScores(v), !.summary = Summary(0, 0, m)] :
     v \in ScoreValues, m \in {0, 4}}

\* the reports that agree with r on issues and overall.scores
SameIssuesAndScores(r) ==
  {[r EXCEPT !.overall.qualityLevel = level, !.summary = Summary(0, 0, m)] :
     level \in UpstreamLevels, m \in {0, 4}}

\* C17 as stated: two reports that agree on issues and overall.qualityLevel
\* are normalized to the same report.
C17_ResultFromIssuesAndLevelOnly ==
  norm.passes = 1 =>
    \A r2 \in SameIssuesAndLevel(norm.input) :
       LET n2 == StrictGrading(r2)
       IN /\ n2.overall.qualityLevel = norm.report.overall.qualityLevel
          /\ n2.overall.scores = norm.report.overall.scores

\* C17 amended: the normalized qualityLevel depends only on issues and
\* overall.qualityLevel, and the normalized scores only on issues and
\* overall.scores.
C17_LevelAndScoresDependOnTheirInputs ==
  norm.passes = 1 =>
    /\ \A r2 \in SameIssuesAndLevel(norm.input) :
          StrictGrading(r2).overall.qualityLevel = norm.report.overall.qualityLevel
    /\ \A r2 \in SameIssuesAndScores(norm.input) :
          StrictGrading(r2).overall.scores = norm.report.overall.scores

\* a report of 3 Minor issues graded Good with capped scores: reports with
\* other scores or summary counts get the same level, reports with another
\* upstream level the same scores
C17_Witness ==
  /\ norm.passes = 1
  /\ Len(norm.input.issues) = 3
  /\ norm.report.overall.qualityLevel = "Good"
  /\ norm.report.overall.scores # norm.input.overall.scores
  /\ \E r2 \in SameIssuesAndLevel(norm.input) :
        StrictGrading(r2).overall.scores # norm.report.overall.scores

\* ---- C18 ----
\* C18: a response without overall, issues or summary never settles an
\* attempt as a success, and no item is 'completed' with a report that
\* lacks one of the three fields.
C18_InvalidResponseRejected ==
  /\ [][\A r \in LiveRuns : \A wk \in Workers(r) :
          (AttemptSettles(r, wk, "ok") /\ wk.item \in DOMAIN pairs) =>
             \E response \in Responses(wk.item) :
                /\ Parses(response)
                /\ {"overall", "issues", "summary"} \subseteq DOMAIN response.json
                /\ callResults[wk.item, response].outcome = "ok"
                /\ pairs'[wk.item].report = callResults[wk.item, response].report]_vars
  /\ [](\A p \in DOMAIN pairs :
          pairs[p].status = "completed"
             => {"overall", "issues", "summary"} \subseteq DOMAIN pairs[p].report)

\* ---- C19 ----
\* C19: the report of every 'completed' item is strictly graded, in
\* particular when the item is counted: its qualityLevel is
\* determineStrictQuality of the report, one of Critical, Poor, Good,
\* Excellent, and the score an issue maps to is at most the issue's cap.
C19_CompletedReportsNormalized ==
  \A p \in DOMAIN pairs :
     pairs[p].status = "completed" =>
        LET rep == pairs[p].report
            cap(sev) == CASE sev = "Critical" -> 1 [] sev = "Major" -> 2 [] sev = "Minor" -> 4
        IN /\ rep.overall.qualityLevel = determineStrictQuality(rep)
           /\ rep.overall.qualityLevel \in {"Critical", "Poor", "Good", "Excellent"}
           /\ \A j \in DOMAIN rep.issues :
                 ScoreKey(rep.issues[j].issueCategory) # ""
                    => rep.overall.scores[ScoreKey(rep.issues[j].issueCategory)]
                          <= cap(rep.issues[j].severity)

\* an item whose response said Perfect, all scores 5, with a Major Layout
\* issue is completed and counted with level Poor and layout 2
C19_Witness ==
  \E p \in DOMAIN pairs :
     /\ pairs[p].status = "completed"
     /\ counted[p] = 1
     /\ pairs[p].report.issues = <<Issue("Layout", "Major")>>
     /\ pairs[p].report.overall.qualityLevel = "Poor"
     /\ pairs[p].report.overall.scores = [AllScores(5) EXCEPT !["layout"] = 2]

\* ---- C20 ----
\* C20: the items of a run are dequeued, and set to 'analyzing', in the
\* order of the submitted list: an item is dequeued only when every item
\* before it in the list has been, and the items not yet dequeued are the
\* tail of the list that is the queue.
C20_StartedInFifoOrder ==
  \A r \in LiveRuns :
     LET items == runs[r].items
         started == Len(items) - Len(runs[r].queue)
     IN /\ runs[r].queue = SubSeq(items, started + 1, Len(items))
        /\ \A j \in DOMAIN items : dequeued[items[j]] = (IF j <= started THEN 1 ELSE 0)
        /\ \A j \in DOMAIN items :
              (j > started /\ items[j] \in DOMAIN pairs) => pairs[items[j]].status = "pending"

\* an item is completed and counted while an item before it in the list is
\* still being analyzed and one after it is still in the queue
C20_Witness ==
  \E r \in LiveRuns : \E a, b \in DOMAIN runs[r].items :
     /\ a < b
     /\ runs[r].queue # <<>>
     /\ runs[r].items[a] \in DOMAIN pairs /\ pairs[runs[r].items[a]].status = "analyzing"
     /\ runs[r].items[b] \in DOMAIN pairs /\ pairs[runs[r].items[b]].status = "completed"
     /\ counted[runs[r].items[b]] = 1

\* ---- C21 ----
\* C21: when an attempt fails in a run whose token is set, the item becomes
\* 'failed' with the message of that attempt, whatever retry budget is
\* left, and no attempt for the item is in flight afterwards.
C21_NoRetryAfterCancel ==
  [][\A r \in LiveRuns : \A wk \in Workers(r) :
       (runs[r].aborted /\ wk.pc = "await") =>
          \A w2 \in BagToSet(runs'[r].workers) :
             w2.item = wk.item =>
                \/ w2 = wk
                \/ w2.pc = "resume" /\ w2.ok
                \/ /\ w2.pc = "resume" /\ ~w2.ok
                   /\ w2.calls = wk.calls /\ w2.retries = wk.retries
                   /\ w2.msg \in {"Request timed out (30s)",
                                  "Invalid JSON response from model.", TypeErrorMsg}
                   /\ (w2.msg = "Request timed out (30s)") = (abandoned' = abandoned + 1)
                   /\ bulkState'.errors =
                         Append(bulkState.errors, [id |-> wk.item, error |-> w2.msg])
                   /\ wk.item \in DOMAIN pairs =>
                         /\ pairs'[wk.item].status = "failed"
                         /\ pairs'[wk.item].errorMessage = w2.msg]_vars

\* in a cancelled run an item has failed on its first attempt with its
\* whole retry budget left
C21_Witness ==
  \E r \in LiveRuns : \E wk \in Workers(r) :
     /\ runs[r].aborted
     /\ wk.pc = "resume" /\ ~wk.ok /\ wk.calls = 1 /\ wk.retries = 2
     /\ wk.item \in DOMAIN pairs /\ pairs[wk.item].status = "failed"

\* ---- C22 ----
\* C22: in every state the number of entries of errors equals failed.
C22_ErrorsMatchFailed ==
  Len(bulkState.errors) = bulkState.failed

\* ---- C23 ----
\* C23: while the run state is processing (from the start of a run until
\* isComplete), no step decreases completed, success, failed or the length
\* of errors, and no step increases completed by more than 1.
C23_CountersMonotone ==
  [][bulkState.isProcessing =>
       /\ bulkState'.completed >= bulkState.completed
       /\ bulkState'.completed <= bulkState.completed + 1
       /\ bulkState'.success >= bulkState.success
       /\ bulkState'.failed >= bulkState.failed
       /\ Len(bulkState'.errors) >= Len(bulkState.errors)]_vars

\* a run is processing with a success and a failure counted
C23_Witness ==
  /\ bulkState.isProcessing
  /\ bulkState.success >= 1 /\ bulkState.failed >= 1
  /\ Len(bulkState.errors) >= 1
  /\ bulkState.completed < bulkState.total

\* ---- C24 ----
\* C24: an item in an attempt is 'analyzing' with no errorMessage; an item
\* whose processing has ended is 'completed' with its report or 'failed'
\* with an errorMessage; when all workers of a run have exited, each of its
\* items is 'completed' or 'failed' if it was dequeued, and none is
\* 'analyzing'.  (An item removed from the list by Start Over has no status.)
C24_ItemStatusLifecycle ==
  \A r \in LiveRuns :
     /\ \A wk \in Workers(r) :
           wk.item \in DOMAIN pairs =>
              /\ wk.pc = "await" =>
                    /\ pairs[wk.item].status = "analyzing"
                    /\ pairs[wk.item].errorMessage = ""
              /\ (wk.pc = "resume" /\ wk.ok) =>
                    /\ pairs[wk.item].status = "completed"
                    /\ pairs[wk.item].report.screenshotId = wk.item
              /\ (wk.pc = "resume" /\ ~wk.ok) =>
                    /\ pairs[wk.item].status = "failed"
                    /\ pairs[wk.item].errorMessage # ""
     /\ JoinPending(r) =>
           \A i \in RunItems(r) \cap DOMAIN pairs :
              /\ pairs[i].status # "analyzing"
              /\ dequeued[i] = 1 =>
                    \/ pairs[i].status = "completed" /\ pairs[i].report.screenshotId = i
                    \/ pairs[i].status = "failed" /\ pairs[i].errorMessage # ""
              /\ dequeued[i] = 0 => pairs[i].status = "pending"

\* all workers of a run have exited: one of its items is completed, one
\* failed, and the list still holds every item of the run
C24_Witness ==
  \E r \in LiveRuns :
     /\ JoinPending(r)
     /\ RunItems(r) \subseteq DOMAIN pairs
     /\ \E i, j \in RunItems(r) :
           /\ pairs[i].status = "completed" /\ pairs[i].report.screenshotId = i
           /\ pairs[j].status = "failed" /\ pairs[j].errorMessage # ""

\* ---- C25 ----
\* C25: a strict grading changes nothing of a report but overall.qualityLevel
\* and overall.scores, and of the scores only those whose dimension is the
\* one of the category of some issue: issues, summary, the free-text fields
\* and every score that no issue maps to (an issue of category Other maps to
\* none) are as before.
C25_NormalizeFrame ==
  norm.passes >= 1 =>
     LET before == norm.previous
         after == norm.report
         touched == {k \in ScoreKeys :
                       \E j \in DOMAIN before.issues :
                          \/ k = "accuracy" /\ before.issues[j].issueCategory = "Mistranslation"
                          \/ k = "terminology" /\ before.issues[j].issueCategory = "Terminology"
                          \/ k = "layout" /\ before.issues[j].issueCategory = "Layout"
                          \/ k = "grammar" /\ before.issues[j].issueCategory = "Grammar"
                          \/ k = "formatting" /\ before.issues[j].issueCategory = "Formatting"
                          \/ k = "localizationTone" /\ before.issues[j].issueCategory = "Style"}
     IN /\ DOMAIN after = DOMAIN before
        /\ after.screenshotId = before.screenshotId
        /\ after.issues = before.issues
        /\ after.summary = before.summary
        /\ DOMAIN after.overall = DOMAIN before.overall
        /\ after.overall.sceneDescription = before.overall.sceneDescription
        /\ after.overall.mainProblemsSummary = before.overall.mainProblemsSummary
        /\ \A k \in ScoreKeys \ touched : after.overall.scores[k] = before.overall.scores[k]

\* a report whose only issues are of category Other was graded: its level
\* became Critical and its six scores are the original ones
C25_Witness ==
  /\ norm.passes = 1
  /\ norm.input.issues = <<Issue("Other", "Critical"), Issue("Other", "Critical")>>
  /\ norm.input.overall = Overall("Good", 5)
  /\ norm.report.overall.qualityLevel = "Critical"
  /\ norm.report.overall.scores = AllScores(5)
  /\ norm.report.summary = norm.input.summary

\* ---- C26 ----
\* C26: the settling of an analysis call whose attempt has lost the race to
\* the deadline changes no item (status, report, errorMessage), no field of
\* the run state and no worker.
C26_LateResultIgnored ==
  [][abandoned' < abandoned =>
       /\ pairs' = pairs
       /\ bulkState' = bulkState
       /\ runs' = runs
       /\ counted' = counted]_vars

\* the last attempt of an item timed out, the item was counted as failed,
\* and the call of that attempt has settled since: the item and the
\* counters are as the timeout left them
C26_Witness ==
  /\ abandoned = 0
  /\ \E i \in DOMAIN pairs :
        /\ pairs[i].status = "failed"
        /\ pairs[i].errorMessage = TimeoutMsg
        /\ counted[i] = 1
  /\ bulkState.total = 1 /\ bulkState.completed = 1
  /\ bulkState.failed = 1 /\ bulkState.success = 0
  /\ bulkState.errors = <<[id |-> 1, error |-> TimeoutMsg]>>
  /\ \A r \in DOMAIN runs : runs[r].sched = "done"

\* ---- C27 ----
\* C27: once a later run has been started, no step of a worker or of the
\* scheduler of an earlier run changes the run state.
C27_EarlierRunLeavesLaterRunAlone ==
  [][\A r \in LiveRuns :
       (/\ r < Len(runs)
        /\ \/ SchedulerJoins(r)
           \/ \E wk \in Workers(r) :
                 \/ WorkerResumes(r, wk)
                 \/ \E o \in Outcomes : AttemptSettles(r, wk, o))
         => bulkState' = bulkState]_vars

\* ---- C28 ----
\* C28: the join of a run never clears the token reference while it points
\* to the token of another run.
C28_TokenRefOfCurrentRun ==
  [][\A r \in LiveRuns :
       (SchedulerJoins(r) /\ abortControllerRef # r)
         => abortControllerRef' = abortControllerRef]_vars

\* ---- C29 ----
\* C29: when all workers of a run have exited, success is the number of the
\* run's items with status 'completed', failed the number of its items with
\* status 'failed', and errors holds exactly one entry for each of these.
C29_CountersAgreeWithStatuses ==
  \A r \in LiveRuns :
     JoinPending(r) =>
        LET done == {i \in RunItems(r) : i \in DOMAIN pairs /\ pairs[i].status = "completed"}
            bad == {i \in RunItems(r) : i \in DOMAIN pairs /\ pairs[i].status = "failed"}
        IN /\ bulkState.success = Cardinality(done)
           /\ bulkState.failed = Cardinality(bad)
           /\ \A i \in bad :
                 Cardinality({j \in DOMAIN bulkState.errors : bulkState.errors[j].id = i}) = 1

\* ---- C30 ----
\* the permutations of 1..n, for the lists of at most MaxPermuted issues
IssuePermutations ==
  [n \in 0..MaxPermuted |->
     {f \in [1..n -> 1..n] : \A a, b \in 1..n : f[a] = f[b] => a = b}]

\* the exchanges of two positions of 1..n (every permutation is a product of
\* them, and the reports graded include every reordering of each list)
Transpositions(n) ==
  {[j \in 1..n |-> IF j = a THEN b ELSE IF j = b THEN a ELSE j] : a, b \in 1..n}

\* the reorderings of a list of n issues that are compared: all of them up
\* to MaxPermuted issues, the exchanges of two issues for longer lists
Reorderings(n) ==
  IF n <= MaxPermuted THEN IssuePermutations[n] ELSE Transpositions(n)

\* C30: for every permutation of the issues of a report,
\* determineStrictQuality gives the same tier and enforceScoreConsistency
\* the same six scores as for the report itself.
C30_IssueOrderIrrelevant ==
  norm.passes = 1 =>
     LET r == norm.input
         n == Len(r.issues)
     IN \A f \in Reorderings(n) :
           LET permuted == [r EXCEPT !.issues = [j \in 1..n |-> r.issues[f[j]]]]
           IN /\ determineStrictQuality(permuted) = norm.report.overall.qualityLevel
              /\ enforceScoreConsistency(permuted).overall.scores
                    = norm.report.overall.scores

\* a report with a Minor, a Critical and again a Minor Layout issue was
\* graded: layout is 1 although the last issue of the list is Minor
C30_Witness ==
  /\ norm.passes = 1
  /\ norm.input.issues = <<Issue("Layout", "Minor"), Issue("Layout", "Critical"),
                           Issue("Layout", "Minor"), Issue("Grammar", "Major")>>
  /\ norm.input.overall = Overall("Good", 5)
  /\ norm.report.overall.scores["layout"] = 1
  /\ norm.report.overall.scores["grammar"] = 2
  /\ norm.report.overall.qualityLevel = "Critical"

\* ---- specification with the fairness of the event loop ----
\* Queued continuations run before the next task, and every attempt
\* settles: its analysis call resolves or rejects, or its 30 s timer fires.
FairSpec ==
  /\ Spec
  /\ WF_vars(\E r \in LiveRuns : \E wk \in Workers(r), o \in Outcomes : AttemptSettles(r, wk, o))
  /\ WF_vars(\E r \in LiveRuns : \E wk \in Workers(r) : WorkerResumes(r, wk))
  /\ WF_vars(\E r \in LiveRuns : SchedulerJoins(r))
====
